---- MODULE Spec2Model ----
(***************************************************************************)
(* Model of the Stadt Karlsruhe syndication pipeline: the orchestrator     *)
(* (SyndicationService.run and main), the per-preview detail units, the    *)
(* tracking service (load, detectChanges, save) and the feed writer.       *)
(***************************************************************************)
EXTENDS Integers, Sequences, FiniteSets, TLC

(* ----------------------------- bounds ---------------------------------- *)
\* Largest number of previews the listing parse yields in one run.
MaxPreviews == 2
\* Number of runs the external scheduler starts one after the other.
MaxRuns == 2

(* --------------------------- value domains ----------------------------- *)
\* Absolute links of previews (LinkNormalizer output).
Links == {"u1", "u2"}
\* Extracted detail-page contents.
Contents == {"c1", "c2"}
\* A JS Date is its time value; here in hours since the epoch.  The time
\* value of an Invalid Date (NaN) is encoded as -1.
InvalidDate == -1
PreviewDates == {5, InvalidDate}

(* ----------------------- identity generation --------------------------- *)
\* date.toISOString().split('T')[0]: the UTC calendar day of the instant.
HoursPerDay == 24
ToISODate(date) == date \div HoursPerDay

\* createHash('md5').update(hashInput).digest('hex'), taken as injective on
\* its input (collision-modulo): the digest is represented by its preimage.
md5(hashInput) == <<"md5", hashInput>>

\* IdGenerator.generate for a valid date; toISOString throws a RangeError on
\* an Invalid Date, which generateThrows reports.
generateThrows(date) == date = InvalidDate
\* An id taken from the date alone.
generateFromDateOnly(content, date) == md5(<<ToISODate(date), "|", "">>)
generate(content, date) == md5(<<ToISODate(date), "|", content>>)

\* Every id the pipeline can produce within the domains above.
Ids == {generate(c, d) : c \in Contents, d \in PreviewDates \ {InvalidDate}}

(* ----------------------------- articles -------------------------------- *)
\* ArticlePreview (title and description play no part in the pipeline's
\* control flow and are left out) and Article = {...preview, id, content}.
Previews == [link : Links, date : PreviewDates]
Article(preview, id, content) ==
  [link |-> preview.link, date |-> preview.date, id |-> id, content |-> content]

(* -------------------------- tracking store ----------------------------- *)
\* TrackingData is a JS object used as a map: a function on its own keys.
EmptyStore == [k \in {} |-> 0]
Has(store, key) == key \in DOMAIN store
\* store[key] = entry on an object: adds the key or overwrites its entry.
Put(store, key, entry) ==
  [k \in (DOMAIN store) \cup {key} |-> IF k = key THEN entry ELSE store[k]]

\* The factory stamping the entry with a clock reading of its own, as its
\* default for a missing lastSeen does, instead of the caller's now.
createOwnStamp(contentHash, link, lastSeen) ==
  [contentHash |-> contentHash, lastSeen |-> lastSeen + 1, link |-> link]

\* TrackingEntryFactory.create(contentHash, link, lastSeen).
create(contentHash, link, lastSeen) ==
  [contentHash |-> contentHash, lastSeen |-> lastSeen, link |-> link]

\* One iteration of the loop of the earlier, in-place detectChanges: it reads
\* and writes the caller's object and keeps no copy.
detectStepInPlace(st, article, now) ==
  LET id == article.id
      hit == Has(st.tracking, id)
      fresh == create(id, article.link, now)
      entry == IF ~hit THEN fresh
               ELSE IF st.tracking[id].link # article.link THEN fresh
               ELSE [st.tracking[id] EXCEPT !.lastSeen = now]
  IN [st EXCEPT
        !.newArticles = IF ~hit THEN Append(@, article) ELSE @,
        !.updated = IF hit /\ st.tracking[id].link # article.link
                    THEN Append(@, article) ELSE @,
        !.unchanged = IF hit /\ st.tracking[id].link = article.link
                      THEN @ + 1 ELSE @,
        !.tracking = Put(@, id, entry),
        !.updatedTracking = Put(@, id, entry)]

\* The loop with an Unchanged branch that rebuilds the entry through the
\* factory instead of carrying the existing one forward.
detectStepRebuild(st, article, now) ==
  LET id == article.id
      hit == Has(st.tracking, id)
  IN [st EXCEPT
        !.newArticles = IF ~hit THEN Append(@, article) ELSE @,
        !.updated = IF hit /\ st.tracking[id].link # article.link
                    THEN Append(@, article) ELSE @,
        !.unchanged = IF hit /\ st.tracking[id].link = article.link
                      THEN @ + 1 ELSE @,
        !.updatedTracking = Put(@, id, [contentHash |-> id, lastSeen |-> now,
                                        link |-> article.link])]

\* One iteration of the loop of detectChanges.  st holds the locals
\* newArticles, updated, unchanged, updatedTracking and the caller's object
\* tracking, which the loop only reads.
detectStep(st, article, now) ==
  LET id == article.id
      hit == Has(st.tracking, id)
      existing == st.tracking[id]
  IN IF ~hit
     THEN [st EXCEPT
             !.newArticles = Append(@, article),
             !.updatedTracking = Put(@, id, create(id, article.link, now))]
     ELSE IF existing.link # article.link
     THEN [st EXCEPT
             !.updated = Append(@, article),
             !.updatedTracking = Put(@, id, create(id, article.link, now))]
     ELSE [st EXCEPT
             !.unchanged = @ + 1,
             !.updatedTracking = Put(@, id, [existing EXCEPT !.lastSeen = now])]

RECURSIVE detectLoop(_, _, _)
detectLoop(st, articles, now) ==
  IF articles = <<>> THEN st
  ELSE detectLoop(detectStep(st, Head(articles), now), Tail(articles), now)

\* detectChanges that builds the returned store from nothing instead of from
\* a copy of the store it is given.
detectChangesNoCopy(articles, tracking, now) ==
  detectLoop([newArticles |-> <<>>, updated |-> <<>>, unchanged |-> 0,
              updatedTracking |-> EmptyStore, tracking |-> tracking],
             articles, now)

\* TrackingService.detectChanges(articles, tracking) with now the value of
\* new Date().toISOString() sampled at its start.  The result holds the
\* returned ChangeDetectionResult and, as tracking, the caller's object as
\* the call leaves it.
detectChanges(articles, tracking, now) ==
  detectLoop([newArticles |-> <<>>, updated |-> <<>>, unchanged |-> 0,
              updatedTracking |-> tracking, tracking |-> tracking],
             articles, now)

\* One iteration of the loop of the earlier detectChanges of
\* tracking.service.ts, which has no copy: existing is read from, and the
\* entry written to, the caller's object tracking.
detectChangesInPlaceStep(st, article, now) ==
  LET id == article.id
      hit == Has(st.tracking, id)
      existing == st.tracking[id]
  IN IF ~hit
     THEN [st EXCEPT
             !.newArticles = Append(@, article),
             !.tracking = Put(@, id, [contentHash |-> id, lastSeen |-> now,
                                      link |-> article.link])]
     ELSE IF existing.link # article.link
     THEN [st EXCEPT
             !.updated = Append(@, article),
             !.tracking = Put(@, id, [contentHash |-> id, lastSeen |-> now,
                                      link |-> article.link])]
     ELSE [st EXCEPT
             !.unchanged = @ + 1,
             !.tracking = Put(@, id, [existing EXCEPT !.lastSeen = now])]

RECURSIVE detectChangesInPlaceLoop(_, _, _)
detectChangesInPlaceLoop(st, articles, now) ==
  IF articles = <<>> THEN st
  ELSE detectChangesInPlaceLoop(detectChangesInPlaceStep(st, Head(articles), now),
                                Tail(articles), now)

\* The earlier TrackingService.detectChanges(articles, tracking): it returns
\* newArticles, updated and unchanged; tracking is the caller's object as the
\* call leaves it.
detectChangesInPlace(articles, tracking, now) ==
  detectChangesInPlaceLoop([newArticles |-> <<>>, updated |-> <<>>, unchanged |-> 0,
                            tracking |-> tracking],
                           articles, now)

\* A load that starts fresh on every error, not only on ENOENT.
loadStartsFreshOnAnyError(file) ==
  IF file.kind = "data" THEN [ok |-> TRUE, value |-> file.data]
  ELSE [ok |-> TRUE, value |-> EmptyStore]

\* TrackingService.load on the tracking file: ENOENT gives the empty store;
\* unparsable JSON, a schema violation or another read error is rethrown as
\* FileSystemError; otherwise the validated data is returned.
load(file) ==
  IF file.kind = "absent" THEN [ok |-> TRUE, value |-> EmptyStore]
  ELSE IF file.kind = "data" THEN [ok |-> TRUE, value |-> file.data]
  ELSE [ok |-> FALSE, value |-> EmptyStore]

\* What save writes: JSON.stringify(tracking) replaces the file's content.
save(store) == [kind |-> "data", data |-> store]

(* ------------------------------ feed ----------------------------------- *)
MAX_ARTICLES == 100
\* articles.slice(0, n)
slice(articles, n) ==
  IF Len(articles) <= n THEN articles ELSE SubSeq(articles, 1, n)
\* The items FeedService.generate adds, in the order of its argument.
feedItems(articles) ==
  [i \in 1..Len(slice(articles, MAX_ARTICLES)) |->
     [id |-> articles[i].id, link |-> articles[i].link, date |-> articles[i].date,
      content |-> articles[i].content]]

(* --------------------------- detail units ------------------------------ *)
\* What the site answers for one detail page: the fetch fails after its
\* retries, the extractor finds no valid content, or content is extracted.
DetailOutcomes == {"fetchError", "extractError"} \cup Contents

Null == <<>>
Some(v) == <<v>>
Fulfilled(v) == [status |-> "fulfilled", value |-> v]
Rejected == [status |-> "rejected", value |-> Null]

\* buildArticle without its try/catch: a throw of fetchHTML, parseDetailPage
\* or generateId rejects the unit's promise.
buildArticleUncaught(preview, outcome) ==
  IF outcome \in {"fetchError", "extractError"} \/ generateThrows(preview.date)
  THEN Rejected
  ELSE Fulfilled(Some(Article(preview, generate(outcome, preview.date), outcome)))

\* SyndicationService.buildArticle: the promise it returns.  Every throw of
\* fetchHTML, parseDetailPage and generateId is caught and turned into null.
buildArticle(preview, outcome) ==
  IF outcome = "fetchError" THEN Fulfilled(Null)
  ELSE IF outcome = "extractError" THEN Fulfilled(Null)
  ELSE IF generateThrows(preview.date) THEN Fulfilled(Null)
  ELSE Fulfilled(Some(Article(preview, generate(outcome, preview.date), outcome)))

\* The value Promise.all resolves with: the units' values by position, in
\* whatever order the units settled.
PromiseAll(results, order) == [i \in 1..Len(results) |-> results[i].value]

\* (...).filter(Boolean) as Article[]
RECURSIVE filterBoolean(_)
filterBoolean(values) ==
  IF values = <<>> THEN <<>>
  ELSE IF Head(values) = Null THEN filterBoolean(Tail(values))
  ELSE <<Head(values)[1]>> \o filterBoolean(Tail(values))

(* ------------------------------ listing -------------------------------- *)
\* The listing HTML a fetch delivers: blank, with no element any article
\* selector matches, or with matching elements.
ListingHtmls == {"blank", "noMatch", "elements"}
\* parseArticles that reports a listing without any matching element as an
\* empty list of previews.
parseArticlesThrowsOnBlankOnly(html) == html = "blank"

\* ParserService.parseArticles throws ParseError on blank HTML and when
\* findElements finds no selector that matches.
parseArticlesThrows(html) == html = "blank" \/ html = "noMatch"

(* ---------------------------- orchestrator ----------------------------- *)
\* The store run() hands to trackingService.save.
saveArgument(loadedTracking, changeResult) == loadedTracking

\* SyndicationService.summarize
summarize == [totalArticles |-> 0, newArticles |-> 0, updated |-> 0, unchanged |-> 0]

NoChanges ==
  [newArticles |-> <<>>, updated |-> <<>>, unchanged |-> 0, updatedTracking |-> EmptyStore]

\* No utility call is under way.
NoCall == [fn |-> "none"]

(* ------------------------------- state --------------------------------- *)
VARIABLES
  trackingFile,     \* content of TRACKING_FILE on disk
  feedFile,         \* content of OUTPUT_FILE on disk
  clock,            \* the wall clock read by new Date()
  runs,             \* runs started so far
  pc,               \* where run()/main() stands
  listing,          \* what the listing fetch of this run delivered
  previews,         \* result of parseArticles
  detail,           \* per unit: what the site answered (set when it settles)
  results,          \* per unit: the promise buildArticle returned
  order,            \* the units in the order they settled
  detailedArticles, \* the collected articles
  loaded,           \* the store as load() returned it
  tracking,         \* the object load() returned, as it is now
  changes,          \* what detectChanges returned
  summary,          \* what run() resolved with
  error,            \* code of the error run() rejected with
  exitCode,         \* the process status, -1 while none
  feedWrites,       \* writes of the feed file in this run
  trackingWrites,   \* writes of the tracking file in this run
  observed,         \* <<id, link>> of the articles of earlier saved runs
  call,             \* a call of a utility on its own: function and arguments
  ret               \* what that call returned

vars == <<trackingFile, feedFile, clock, runs, pc, listing, previews, detail, results,
          order, detailedArticles, loaded, tracking, changes, summary, error,
          exitCode, feedWrites, trackingWrites, observed, call, ret>>

callVars == <<call, ret>>
disk == <<trackingFile, feedFile, feedWrites, trackingWrites>>
unitVars == <<detail, results, order>>
reconcileVars == <<loaded, tracking, changes>>

\* Entries a tracking file may hold before the first run: whatever passes
\* trackingDataSchema, a record of string keys to {contentHash, lastSeen, link}.
FileEntries == [contentHash : Ids, lastSeen : {0}, link : Links]
FileStores == UNION {[keys -> FileEntries] : keys \in SUBSET Ids}
DataFiles == {[kind |-> "data", data |-> st] : st \in FileStores}
AbsentFile == [kind |-> "absent", data |-> EmptyStore]
\* Files load() fails on: a read error other than ENOENT, unparsable JSON,
\* data that trackingDataSchema rejects.
BadFiles ==
  {[kind |-> k, data |-> EmptyStore] :
     k \in {"unreadable", "invalidJson", "invalidSchema"}}
\* The tracking files the runs of the pipeline start from: none, a bad one,
\* or one with at most one entry.
InitialFiles ==
  {AbsentFile} \cup BadFiles
  \cup {f \in DataFiles : Cardinality(DOMAIN f.data) <= 1}

NoFeed == [exists |-> FALSE, items |-> <<>>]

Init ==
  /\ trackingFile \in InitialFiles
  /\ feedFile = NoFeed
  /\ clock = 0
  /\ runs = 0
  /\ pc = "idle"
  /\ listing = "none"
  /\ previews = <<>>
  /\ detail = <<>>
  /\ results = <<>>
  /\ order = <<>>
  /\ detailedArticles = <<>>
  /\ loaded = EmptyStore
  /\ tracking = EmptyStore
  /\ changes = NoChanges
  /\ summary = summarize
  /\ error = "none"
  /\ exitCode = -1
  /\ feedWrites = 0
  /\ trackingWrites = 0
  /\ observed = {}
  /\ call = NoCall
  /\ ret = NoCall

\* The scheduler starts main(): runs are serialized, and time has passed
\* since the run before.
StartRun ==
  /\ pc \in {"idle", "exited"}
  /\ runs < MaxRuns
  /\ runs' = runs + 1
  /\ clock' = clock + 1
  /\ pc' = "listing"
  /\ listing' = "none"
  /\ error' = "none"
  /\ exitCode' = -1
  /\ feedWrites' = 0
  /\ trackingWrites' = 0
  /\ UNCHANGED <<trackingFile, feedFile, previews, unitVars, detailedArticles,
                 reconcileVars, summary, observed>>
  /\ UNCHANGED callVars

Reject(code) ==
  /\ pc' = "rejected"
  /\ error' = code

\* await scraperService.fetchHTML() throws FetchError.
ListingFetchFails ==
  /\ pc = "listing"
  /\ listing' = "fetchError"
  /\ Reject("FETCH_ERROR")
  /\ UNCHANGED <<disk, clock, runs, previews, unitVars, detailedArticles,
                 reconcileVars, summary, exitCode, observed>>
  /\ UNCHANGED callVars

\* The listing HTML is blank, or no article selector matches an element:
\* parseArticles throws ParseError.
ListingParseFails ==
  /\ pc = "listing"
  /\ \E html \in ListingHtmls :
       /\ parseArticlesThrows(html)
       /\ listing' = html
  /\ Reject("PARSE_ERROR")
  /\ UNCHANGED <<disk, clock, runs, previews, unitVars, detailedArticles,
                 reconcileVars, summary, exitCode, observed>>
  /\ UNCHANGED callVars

BoundedSeq(S, n) == UNION {[1..m -> S] : m \in 0..n}

\* parseArticles returns no preview (every matched element was skipped):
\* run() resolves with the zero summary.
ListingParsedEmpty ==
  /\ pc = "listing"
  /\ \E html \in ListingHtmls :
       /\ ~parseArticlesThrows(html)
       /\ listing' = html
  /\ previews' = <<>>
  /\ summary' = summarize
  /\ pc' = "resolved"
  /\ UNCHANGED <<disk, clock, runs, unitVars, detailedArticles, reconcileVars,
                 error, exitCode, observed>>
  /\ UNCHANGED callVars

\* parseArticles returns previews; previews.map(buildArticle) starts one unit
\* per preview, each of which awaits its detail fetch.
ListingParsed ==
  /\ pc = "listing"
  /\ ~parseArticlesThrows("elements")
  /\ listing' = "elements"
  /\ \E ps \in BoundedSeq(Previews, MaxPreviews) :
       /\ ps # <<>>
       /\ previews' = ps
       /\ detail' = [i \in 1..Len(ps) |-> "pending"]
       /\ results' = [i \in 1..Len(ps) |-> Fulfilled(Null)]
  /\ order' = <<>>
  /\ pc' = "details"
  /\ UNCHANGED <<disk, clock, runs, detailedArticles, reconcileVars, summary,
                 error, exitCode, observed>>
  /\ UNCHANGED callVars

Settled(i) == \E k \in 1..Len(order) : order[k] = i

\* Unit i resumes after its detail fetch and runs to its end.  A rejected
\* unit rejects Promise.all, and with it run(), at once.
DetailSettled ==
  /\ pc = "details"
  /\ \E i \in 1..Len(previews), outcome \in DetailOutcomes :
       /\ ~Settled(i)
       /\ LET r == buildArticle(previews[i], outcome)
          IN /\ detail' = [detail EXCEPT ![i] = outcome]
             /\ results' = [results EXCEPT ![i] = r]
             /\ order' = Append(order, i)
             /\ IF r.status = "rejected"
                THEN Reject("UNIT")
                ELSE UNCHANGED <<pc, error>>
  /\ UNCHANGED <<listing, disk, clock, runs, previews, detailedArticles, reconcileVars,
                 summary, exitCode, observed>>
  /\ UNCHANGED callVars

\* run() without its early return on an empty collection: it goes on to
\* load, reconcile, emit and save.
AllSettledNoEarlyReturn ==
  /\ pc = "details"
  /\ Len(order) = Len(previews)
  /\ detailedArticles' = filterBoolean(PromiseAll(results, order))
  /\ pc' = "loading"
  /\ UNCHANGED <<listing, disk, clock, runs, previews, unitVars, reconcileVars, error,
                 summary, exitCode, observed>>
  /\ UNCHANGED callVars

\* Every unit has settled: Promise.all resolves and run() resumes.  With no
\* article left it resolves with the zero summary, else it awaits load().
AllSettled ==
  /\ pc = "details"
  /\ Len(order) = Len(previews)
  /\ LET collected == filterBoolean(PromiseAll(results, order))
     IN /\ detailedArticles' = collected
        /\ IF Len(collected) = 0
           THEN /\ summary' = summarize
                /\ pc' = "resolved"
           ELSE /\ pc' = "loading"
                /\ UNCHANGED summary
  /\ UNCHANGED <<listing, disk, clock, runs, previews, unitVars, reconcileVars, error,
                 exitCode, observed>>
  /\ UNCHANGED callVars

\* await trackingService.load() throws FileSystemError.
LoadFails ==
  /\ pc = "loading"
  /\ ~load(trackingFile).ok
  /\ Reject("FILE_SYSTEM_ERROR")
  /\ UNCHANGED <<listing, disk, clock, runs, previews, unitVars, detailedArticles,
                 reconcileVars, summary, exitCode, observed>>
  /\ UNCHANGED callVars

\* load() returns; run() calls detectChanges, then feedService.generate and
\* awaits its write.  The settled promises are garbage by now.
Loaded ==
  /\ pc = "loading"
  /\ load(trackingFile).ok
  /\ LET store == load(trackingFile).value
         r == detectChanges(detailedArticles, store, clock)
     IN /\ loaded' = store
        /\ tracking' = r.tracking
        /\ changes' = [newArticles |-> r.newArticles, updated |-> r.updated,
                       unchanged |-> r.unchanged,
                       updatedTracking |-> r.updatedTracking]
  /\ pc' = "feed"
  /\ detail' = <<>>
  /\ results' = <<>>
  /\ order' = <<>>
  /\ UNCHANGED <<listing, disk, clock, runs, previews, detailedArticles, summary, error,
                 exitCode, observed>>
  /\ UNCHANGED callVars

\* A run() that goes on to save although the feed could not be written.
FeedWriteFailsSaveAnyway ==
  /\ pc = "feed"
  /\ pc' = "saving"
  /\ UNCHANGED <<listing, disk, clock, runs, previews, unitVars, detailedArticles,
                 reconcileVars, summary, error, exitCode, observed>>
  /\ UNCHANGED callVars

\* mkdir or writeFile of the feed fails: generate throws FileSystemError.
FeedWriteFails ==
  /\ pc = "feed"
  /\ Reject("FILE_SYSTEM_ERROR")
  /\ UNCHANGED <<listing, disk, clock, runs, previews, unitVars, detailedArticles,
                 reconcileVars, summary, exitCode, observed>>
  /\ UNCHANGED callVars

\* The feed is written; run() calls save and awaits its write.
FeedWritten ==
  /\ pc = "feed"
  /\ feedFile' = [exists |-> TRUE, items |-> feedItems(detailedArticles)]
  /\ feedWrites' = feedWrites + 1
  /\ pc' = "saving"
  /\ UNCHANGED <<listing, trackingFile, trackingWrites, clock, runs, previews, unitVars,
                 detailedArticles, reconcileVars, summary, error, exitCode,
                 observed>>
  /\ UNCHANGED callVars

\* mkdir or writeFile of the tracking file fails: save throws FileSystemError.
SaveFails ==
  /\ pc = "saving"
  /\ Reject("FILE_SYSTEM_ERROR")
  /\ UNCHANGED <<listing, disk, clock, runs, previews, unitVars, detailedArticles,
                 reconcileVars, summary, exitCode, observed>>
  /\ UNCHANGED callVars

\* The tracking file is written; run() resolves with its summary.
Saved ==
  /\ pc = "saving"
  /\ trackingFile' = save(saveArgument(tracking, changes))
  /\ trackingWrites' = trackingWrites + 1
  /\ summary' = [totalArticles |-> Len(detailedArticles),
                 newArticles |-> Len(changes.newArticles),
                 updated |-> Len(changes.updated),
                 unchanged |-> changes.unchanged]
  /\ pc' = "resolved"
  /\ UNCHANGED <<listing, feedFile, feedWrites, clock, runs, previews, unitVars,
                 detailedArticles, reconcileVars, error, exitCode, observed>>
  /\ UNCHANGED callVars

\* main(): a rejected run() is logged and process.exit(1) is called; after a
\* resolved run() main returns and the process ends with status 0.  The
\* memory of the process is gone with it.
MainExit ==
  /\ pc \in {"resolved", "rejected"}
  /\ exitCode' = IF pc = "rejected" THEN 1 ELSE 0
  /\ observed' = IF trackingWrites > 0
                 THEN observed \cup
                      {<<detailedArticles[i].id, detailedArticles[i].link>> :
                         i \in 1..Len(detailedArticles)}
                 ELSE observed
  /\ pc' = "exited"
  /\ previews' = <<>>
  /\ detail' = <<>>
  /\ results' = <<>>
  /\ order' = <<>>
  /\ detailedArticles' = <<>>
  /\ loaded' = EmptyStore
  /\ tracking' = EmptyStore
  /\ changes' = NoChanges
  /\ summary' = summarize
  /\ UNCHANGED <<listing, disk, clock, runs, error>>
  /\ UNCHANGED callVars

Next ==
  \/ StartRun
  \/ ListingFetchFails
  \/ ListingParseFails
  \/ ListingParsedEmpty
  \/ ListingParsed
  \/ DetailSettled
  \/ AllSettled
  \/ LoadFails
  \/ Loaded
  \/ FeedWriteFails
  \/ FeedWritten
  \/ SaveFails
  \/ Saved
  \/ MainExit

Spec == Init /\ [][Next]_vars

(* ------------------- the reconciler, called on its own ----------------- *)
\* The articles buildArticle can produce within the domains above.
ArticleValues ==
  {Article(p, generate(c, p.date), c) :
     p \in {q \in Previews : ~generateThrows(q.date)}, c \in Contents}

InitDetect ==
  /\ trackingFile \in {AbsentFile} \cup DataFiles
  /\ feedFile = NoFeed
  /\ clock = 0
  /\ runs = 0
  /\ pc = "reconciler"
  /\ listing = "none"
  /\ previews = <<>>
  /\ detail = <<>>
  /\ results = <<>>
  /\ order = <<>>
  /\ detailedArticles = <<>>
  /\ loaded = EmptyStore
  /\ tracking = EmptyStore
  /\ changes = NoChanges
  /\ summary = summarize
  /\ error = "none"
  /\ exitCode = -1
  /\ feedWrites = 0
  /\ trackingWrites = 0
  /\ observed = {}
  /\ call = NoCall
  /\ ret = NoCall

detectFrame == <<trackingFile, feedFile, listing, previews, detail, results,
                 order, summary, error, exitCode, feedWrites, trackingWrites,
                 observed, call, ret>>

\* A caller loads the persisted store.
DetectLoad ==
  /\ pc = "reconciler"
  /\ load(trackingFile).ok
  /\ tracking' = load(trackingFile).value
  /\ pc' = "ready"
  /\ UNCHANGED <<detectFrame, clock, runs, detailedArticles, loaded, changes>>

\* One call detectChanges(articles, tracking); loaded keeps the store as it
\* was handed in, tracking is the caller's object after the call.
DetectCall ==
  /\ pc = "ready"
  /\ runs < MaxRuns
  /\ \E articles \in BoundedSeq(ArticleValues, MaxPreviews) :
       LET r == detectChanges(articles, tracking, clock + 1)
       IN /\ detailedArticles' = articles
          /\ loaded' = tracking
          /\ tracking' = r.tracking
          /\ changes' = [newArticles |-> r.newArticles, updated |-> r.updated,
                         unchanged |-> r.unchanged,
                         updatedTracking |-> r.updatedTracking]
  /\ clock' = clock + 1
  /\ runs' = runs + 1
  /\ pc' = "returned"
  /\ UNCHANGED detectFrame

\* The caller goes on with the returned store, the input of its next call.
DetectChain ==
  /\ pc = "returned"
  /\ tracking' = changes.updatedTracking
  /\ loaded' = EmptyStore
  /\ changes' = NoChanges
  /\ detailedArticles' = <<>>
  /\ pc' = "ready"
  /\ UNCHANGED <<detectFrame, clock, runs>>

NextDetect ==
  \/ DetectLoad
  \/ DetectCall
  \/ DetectChain

SpecDetect == InitDetect /\ [][NextDetect]_vars

(* ============================ properties =============================== *)
\* In SpecDetect, after a call: loaded is the prior store, detailedArticles
\* the article list, changes the result, clock the call's timestamp now.
CallReturned == pc = "returned"
IdsOf(articles) == {articles[i].id : i \in 1..Len(articles)}
PriorNew(a) == ~Has(loaded, a.id)
PriorUpdated(a) == Has(loaded, a.id) /\ loaded[a.id].link # a.link
PriorUnchanged(a) == Has(loaded, a.id) /\ loaded[a.id].link = a.link
\* Position i holds the last article of the list with its id.
LastOfItsId(articles, i) ==
  \A j \in (i + 1)..Len(articles) : articles[j].id # articles[i].id

\* C1: detectChanges puts every article in exactly one class, decided against
\* the prior store: New iff its id is no key of the prior store, Updated iff
\* it is a key and the stored link differs, Unchanged iff it is a key and the
\* stored link is equal; the three counts add up to the number of articles.
C1_Classification ==
  CallReturned =>
    /\ changes.newArticles = SelectSeq(detailedArticles, PriorNew)
    /\ changes.updated = SelectSeq(detailedArticles, PriorUpdated)
    /\ changes.unchanged = Len(SelectSeq(detailedArticles, PriorUnchanged))
    /\ Len(changes.newArticles) + Len(changes.updated) + changes.unchanged
         = Len(detailedArticles)

\* A call whose list repeats an id the prior store does not hold: both
\* articles are New.
C1_Witness ==
  /\ CallReturned
  /\ Len(detailedArticles) = 2
  /\ detailedArticles[1].id = detailedArticles[2].id
  /\ Len(changes.newArticles) = 2

\* C4: detectChanges does not mutate the store it is given: after the call
\* the caller's object has the keys and entries it had before.
C4_InputUntouched == CallReturned => tracking = loaded

\* A call on a non-empty store that returned a different store.
C4_Witness ==
  /\ CallReturned
  /\ loaded # EmptyStore
  /\ changes.updatedTracking # loaded

\* C7: the returned store's keys are the prior keys plus the ids of the
\* articles, and every entry whose id is not among the articles is the prior
\* entry: nothing is pruned.
C7_SupersetNoPruning ==
  CallReturned =>
    /\ DOMAIN changes.updatedTracking = DOMAIN loaded \cup IdsOf(detailedArticles)
    /\ \A k \in DOMAIN loaded \ IdsOf(detailedArticles) :
         changes.updatedTracking[k] = loaded[k]

\* A call with articles on a store that holds an id not among them.
C7_Witness ==
  /\ CallReturned
  /\ detailedArticles # <<>>
  /\ DOMAIN loaded \ IdsOf(detailedArticles) # {}

C6_AsClaimed ==
  CallReturned =>
    \A i \in 1..Len(detailedArticles) :
      LET a == detailedArticles[i]
      IN PriorUnchanged(a) =>
           changes.updatedTracking[a.id] = [loaded[a.id] EXCEPT !.lastSeen = clock]

\* C6 amended: for every article classified Unchanged that is the last
\* article of the list with its id, the resulting entry is the prior entry
\* with only lastSeen changed (contentHash and link are the prior ones).
C6_CarriedForward ==
  CallReturned =>
    \A i \in 1..Len(detailedArticles) :
      LET a == detailedArticles[i]
      IN (LastOfItsId(detailedArticles, i) /\ PriorUnchanged(a)) =>
           changes.updatedTracking[a.id] = [loaded[a.id] EXCEPT !.lastSeen = clock]

\* An Unchanged article after an Updated one of the same id: the entry is
\* the prior one again, with the prior link.
C6_Witness ==
  /\ CallReturned
  /\ Len(detailedArticles) = 2
  /\ detailedArticles[1].id = detailedArticles[2].id
  /\ PriorUpdated(detailedArticles[1])
  /\ PriorUnchanged(detailedArticles[2])
  /\ changes.updatedTracking[detailedArticles[2].id].link = detailedArticles[2].link

KeysAreHashes(store) == \A k \in DOMAIN store : store[k].contentHash = k

\* C8: in every store reached by loading a persisted file and applying
\* detectChanges any number of times, every key equals the contentHash of
\* the entry stored under it.
C8_KeyEqualsHash ==
  pc \in {"ready", "returned"} =>
    /\ KeysAreHashes(tracking)
    /\ KeysAreHashes(changes.updatedTracking)

(* ----------------------- properties of the runs ------------------------ *)
InSeq(x, seq) == \E i \in 1..Len(seq) : seq[i] = x

\* C2: after a run that reached reconciliation and completed, the persisted
\* tracking store is the store the reconciler returned for that run: it has
\* an entry for every article id of the run, with the run's lastSeen and, for
\* the last article of an id, that article's link.
C2_SavedStoreIsReconciled ==
  (pc = "resolved" /\ trackingWrites = 1) =>
    /\ trackingFile = save(changes.updatedTracking)
    /\ \A i \in 1..Len(detailedArticles) :
         LET a == detailedArticles[i]
         IN /\ Has(trackingFile.data, a.id)
            /\ trackingFile.data[a.id].lastSeen = clock
            /\ LastOfItsId(detailedArticles, i) =>
                 trackingFile.data[a.id].link = a.link

\* C3: across completed runs on one tracking file, an article whose id and
\* link an earlier completed run observed is classified Unchanged, and no id
\* an earlier completed run observed is classified New again.
C3_NewAtMostOnce ==
  pc \in {"feed", "saving", "resolved"} =>
    /\ \A i \in 1..Len(detailedArticles) :
         LET a == detailedArticles[i]
         IN <<a.id, a.link>> \in observed =>
              ~InSeq(a, changes.newArticles) /\ ~InSeq(a, changes.updated)
    /\ \A i \in 1..Len(changes.newArticles) :
         \A o \in observed : o[1] # changes.newArticles[i].id

\* The articles of the previews whose detail fetch, extraction and id
\* generation succeeded, in preview order, from what the site answered.
RECURSIVE ExpectedArticles(_, _)
ExpectedArticles(ps, answers) ==
  IF ps = <<>> THEN <<>>
  ELSE LET p == Head(ps)
           c == Head(answers)
           rest == ExpectedArticles(Tail(ps), Tail(answers))
       IN IF c \in Contents /\ p.date # InvalidDate
          THEN <<[link |-> p.link, date |-> p.date, content |-> c,
                  id |-> generate(c, p.date)]>> \o rest
          ELSE rest

\* All units have settled and run() has collected their articles.
Collected ==
  /\ pc \in {"loading", "resolved"}
  /\ previews # <<>>
  /\ Len(detail) = Len(previews)

\* C9: whatever the order in which the detail units settle and whatever
\* their outcomes, run() collects exactly the articles of the previews whose
\* unit succeeded, in preview order, each with an id and content; a failing
\* unit never rejects run().
C9_CollectsSucceededInOrder ==
  /\ error # "UNIT"
  /\ pc = "details" => \A i \in 1..Len(previews) : results[i].status = "fulfilled"
  /\ Collected =>
       /\ detailedArticles = ExpectedArticles(previews, detail)
       /\ \A i \in 1..Len(detailedArticles) :
            /\ detailedArticles[i].id \in Ids
            /\ detailedArticles[i].content \in Contents

\* The second unit settled first and succeeded, the first one failed
\* afterwards: the second preview's article is collected.
C9_Witness ==
  /\ pc = "loading"
  /\ order = <<2, 1>>
  /\ detail[1] = "fetchError"
  /\ detail[2] \in Contents
  /\ Len(detailedArticles) = 1
  /\ detailedArticles[1].link = previews[2].link

\* C10: when the listing fetch fails or parseArticles fails on blank HTML or
\* on HTML no article selector matches, run() rejects, the process exits
\* with status 1 and the run has written neither the feed nor the tracking
\* file.
C10_ListingFailureIsFatal ==
  listing \in {"fetchError", "blank", "noMatch"} =>
    /\ pc \in {"rejected", "exited"}
    /\ error \in {"FETCH_ERROR", "PARSE_ERROR"}
    /\ pc = "exited" => exitCode = 1
    /\ feedWrites = 0
    /\ trackingWrites = 0

\* A run whose listing matched no selector has exited with status 1.
C10_Witness ==
  /\ pc = "exited"
  /\ listing = "noMatch"
  /\ exitCode = 1
  /\ feedWrites = 0
  /\ trackingWrites = 0

\* run() has resolved with no article: no preview, or no unit succeeded.
ZeroArticleRun == pc = "resolved" /\ detailedArticles = <<>>

\* C11: a run whose listing yields no preview, or whose detail units all
\* fail, resolves (it does not reject) with the all-zero summary and has
\* written neither the feed nor the tracking file; the process then ends with
\* status 0, and the persisted files change only in a step that counts as a
\* write of the run.
C11_ZeroArticlesNotFatal ==
  /\ [](ZeroArticleRun =>
          /\ summary = summarize
          /\ error = "none"
          /\ feedWrites = 0
          /\ trackingWrites = 0)
  /\ [][/\ feedFile' # feedFile => feedWrites' = feedWrites + 1
        /\ trackingFile' # trackingFile => trackingWrites' = trackingWrites + 1
        /\ ZeroArticleRun =>
             /\ pc' = "exited"
             /\ exitCode' = 0
             /\ feedFile' = feedFile
             /\ trackingFile' = trackingFile]_vars

\* The second run found previews but every unit failed; the feed and the
\* tracking file of the first run are still there.
C11_Witness ==
  /\ ZeroArticleRun
  /\ runs = 2
  /\ previews # <<>>
  /\ feedFile.exists
  /\ feedFile.items # <<>>
  /\ trackingFile.kind = "data"
  /\ feedWrites = 0

\* run() holds the store load() returned and has not yet saved.
LoadReturned == pc \in {"feed", "saving"}
MalformedFile == trackingFile \in BadFiles
\* No run has got past load() or written anything; the file is as it was.
RunAbortsAtLoad ==
  /\ ~LoadReturned
  /\ ~(pc = "resolved" /\ detailedArticles # <<>>)
  /\ feedWrites = 0
  /\ trackingWrites = 0
  /\ (pc = "rejected" /\ detailedArticles # <<>>) => error = "FILE_SYSTEM_ERROR"
  /\ pc = "exited" /\ error # "none" => exitCode = 1

\* C12 as claimed: load returns the empty store if and only if the tracking
\* file does not exist, and a malformed file aborts the run.
C12_AsClaimed ==
  /\ LoadReturned => (loaded = EmptyStore <=> trackingFile = AbsentFile)
  /\ MalformedFile => RunAbortsAtLoad

\* C12 amended: load returns the empty store when the tracking file does not
\* exist and the file's own validated store, all of it, when the file holds
\* one (the empty store only for a file holding the empty object); with
\* unparsable JSON, schema-invalid data or another read error the run aborts
\* at load with FileSystemError and writes nothing, so the file stays.
C12_EmptyOnlyWithoutHistory ==
  /\ LoadReturned =>
       /\ trackingFile.kind \in {"absent", "data"}
       /\ trackingFile.kind = "absent" => loaded = EmptyStore
       /\ trackingFile.kind = "data" => loaded = trackingFile.data
  /\ MalformedFile => RunAbortsAtLoad

\* A run with articles met a schema-invalid tracking file and exited with
\* status 1.
C12_Witness ==
  /\ pc = "exited"
  /\ trackingFile.kind = "invalidSchema"
  /\ error = "FILE_SYSTEM_ERROR"
  /\ listing = "elements"
  /\ exitCode = 1
  /\ trackingWrites = 0

(* --------------------------- dates and zones --------------------------- *)
\* A Date is an instant, in whole hours since 1970-01-01T00:00Z, or
\* InvalidDate.  The zone of the process is its offset from UTC in hours:
\* local time = UTC + zone.
TimezoneOffsets == {-1, 0, 1}

IsLeapYear(y) == (y % 4 = 0 /\ y % 100 # 0) \/ y % 400 = 0
LeapYearsBefore(y) == ((y - 1) \div 4) - ((y - 1) \div 100) + ((y - 1) \div 400)
\* Days from 1970-01-01 to the first day of year y.
DaysBeforeYear(y) == 365 * (y - 1970) + LeapYearsBefore(y) - LeapYearsBefore(1970)
\* Days from the first day of year y to the first day of its month
\* monthIndex (0..11).
DaysBeforeMonth(y, monthIndex) ==
  <<0, 31, 59, 90, 120, 151, 181, 212, 243, 273, 304, 334>>[monthIndex + 1]
  + (IF IsLeapYear(y) /\ monthIndex >= 2 THEN 1 ELSE 0)

\* new Date(year, monthIndex, day): midnight of that day in the zone of the
\* process.  Years 0..99 mean 1900..1999; a month index outside 0..11 and a
\* day outside the month carry over into the neighbouring months and years.
NewDate(year, monthIndex, day, zone) ==
  LET fullYear == IF year \in 0..99 THEN 1900 + year ELSE year
      y == fullYear + (monthIndex \div 12)
      m == monthIndex % 12
  IN (DaysBeforeYear(y) + DaysBeforeMonth(y, m) + (day - 1)) * HoursPerDay - zone

\* The calendar day of an instant, as a day number, in UTC (what
\* toISOString shows) and in a zone.
LocalDay(date, zone) == (date + zone) \div HoursPerDay

\* Date.getFullYear(), getMonth() and getDate(): the calendar date of an
\* instant in the zone of the process.
Years == 1900..2100
getFullYear(date, zone) ==
  CHOOSE y \in Years :
    /\ DaysBeforeYear(y) <= LocalDay(date, zone)
    /\ LocalDay(date, zone) < DaysBeforeYear(y + 1)
DayOfYear(date, zone) == LocalDay(date, zone) - DaysBeforeYear(getFullYear(date, zone))
getMonth(date, zone) ==
  CHOOSE m \in 0..11 :
    /\ DaysBeforeMonth(getFullYear(date, zone), m) <= DayOfYear(date, zone)
    /\ m < 11 => DayOfYear(date, zone) < DaysBeforeMonth(getFullYear(date, zone), m + 1)
getDate(date, zone) ==
  DayOfYear(date, zone) - DaysBeforeMonth(getFullYear(date, zone), getMonth(date, zone)) + 1

(* --------------------------- GermanDateParser -------------------------- *)
MinutesPerHour == 60
\* The range of Date is 100,000,000 days either side of the epoch; beyond it
\* new Date(t) is Invalid Date.
MaxDateDays == 100000000
\* A duration longer than that whole range.
OverRange == -1
\* calculateMilliseconds({hours, minutes, days}), in hours.
calculateMilliseconds(hours, minutes, days) ==
  IF days > 2 * MaxDateDays THEN OverRange
  ELSE hours + (minutes \div MinutesPerHour) + days * HoursPerDay
\* subtractMilliseconds(reference, milliseconds)
subtractMilliseconds(reference, duration) ==
  IF duration = OverRange THEN InvalidDate ELSE reference - duration
\* The variant that hands the month on as it stands in the text.
createDateMonthAsWritten(day, month, year, zone) == NewDate(year, month, day, zone)
\* createDateFromNumericParts(day, month, year), month 1-indexed
createDateFromNumericParts(day, month, year, zone) == NewDate(year, month - 1, day, zone)

\* GERMAN_MONTHS: month name -> month index
GermanMonthNames ==
  <<"Januar", "Februar", "März", "April", "Mai", "Juni", "Juli", "August",
    "September", "Oktober", "November", "Dezember">>
GERMAN_MONTHS ==
  [name \in {GermanMonthNames[i] : i \in 1..12} |->
     (CHOOSE i \in 1..12 : GermanMonthNames[i] = name) - 1]

\* A text is a sequence of pieces, each of which is whitespace, a piece no
\* pattern matches, or one occurrence of one of the patterns with the
\* numbers and the word it holds as written.
Piece(kind, value, day, month, name, year) ==
  [kind |-> kind, value |-> value, day |-> day, month |-> month, name |-> name,
   year |-> year]
Relative(unit, value) == Piece(unit, value, 0, 0, "", 0)
Word(w) == Piece(w, 0, 0, 0, "", 0)
MonthForm(day, name, year) == Piece("monthForm", 0, day, 0, name, year)
NumericForm(day, month, year) == Piece("numericForm", 0, day, month, "", year)
IsoForm(year, month, day) == Piece("isoForm", 0, day, month, "", year)

\* text.match(regex), for the regex that matches the pieces of one kind: the
\* index of the leftmost one, 0 for null.
match(text, kind) ==
  IF \E i \in 1..Len(text) : text[i].kind = kind
  THEN CHOOSE i \in 1..Len(text) :
         /\ text[i].kind = kind
         /\ \A j \in 1..(i - 1) : text[j].kind # kind
  ELSE 0

\* text.trim()
RECURSIVE trimStart(_)
trimStart(text) ==
  IF text # <<>> /\ Head(text).kind = "space" THEN trimStart(Tail(text)) ELSE text
RECURSIVE trimEnd(_)
trimEnd(text) ==
  IF text # <<>> /\ text[Len(text)].kind = "space"
  THEN trimEnd(SubSeq(text, 1, Len(text) - 1))
  ELSE text
trim(text) == trimEnd(trimStart(text))

\* GermanDateParser.parseRelativeDate(text, reference): a date or null
parseRelativeDate(text, reference) ==
  IF match(text, "Stunde") # 0
  THEN Some(subtractMilliseconds(reference,
              calculateMilliseconds(text[match(text, "Stunde")].value, 0, 0)))
  ELSE IF match(text, "Minute") # 0
  THEN Some(subtractMilliseconds(reference,
              calculateMilliseconds(0, text[match(text, "Minute")].value, 0)))
  ELSE IF match(text, "Tag") # 0
  THEN Some(subtractMilliseconds(reference,
              calculateMilliseconds(0, 0, text[match(text, "Tag")].value)))
  ELSE IF match(text, "gestern") # 0
  THEN Some(subtractMilliseconds(reference, calculateMilliseconds(0, 0, 1)))
  ELSE IF match(text, "heute") # 0
  THEN Some(reference)
  ELSE Null

\* GermanDateParser.parseAbsoluteDate(text): a date or null
parseAbsoluteDate(text, zone) ==
  LET monthMatch == match(text, "monthForm")
      numericMatch == match(text, "numericForm")
      isoMatch == match(text, "isoForm")
  IN IF monthMatch # 0 /\ text[monthMatch].name \in DOMAIN GERMAN_MONTHS
     THEN Some(createDateFromNumericParts(text[monthMatch].day,
                 GERMAN_MONTHS[text[monthMatch].name] + 1,
                 text[monthMatch].year, zone))
     ELSE IF numericMatch # 0
     THEN Some(createDateFromNumericParts(text[numericMatch].day,
                 text[numericMatch].month, text[numericMatch].year, zone))
     ELSE IF isoMatch # 0
     THEN Some(createDateFromNumericParts(text[isoMatch].day,
                 text[isoMatch].month, text[isoMatch].year, zone))
     ELSE Null

Returned(v) == [status |-> "returned", value |-> v]
Threw == [status |-> "threw", value |-> Null]

\* A parse that raises an error when no pattern matches.
parseOrThrow(text, now, zone) ==
  LET trimmed == trim(text)
      relativeDate == parseRelativeDate(trimmed, now)
      absoluteDate == parseAbsoluteDate(trimmed, zone)
  IN IF relativeDate # Null THEN Returned(relativeDate[1]) @@ [warning |-> Null]
     ELSE IF absoluteDate # Null THEN Returned(absoluteDate[1]) @@ [warning |-> Null]
     ELSE Threw @@ [warning |-> Null]

\* GermanDateParser.parse(text) called at the instant now in a process of
\* some zone: the date it returns and the text of the warning it logs.
parse(text, now, zone) ==
  LET trimmed == trim(text)
      relativeDate == parseRelativeDate(trimmed, now)
      absoluteDate == parseAbsoluteDate(trimmed, zone)
  IN IF relativeDate # Null THEN Returned(relativeDate[1]) @@ [warning |-> Null]
     ELSE IF absoluteDate # Null THEN Returned(absoluteDate[1]) @@ [warning |-> Null]
     ELSE Returned(now) @@ [warning |-> Some(trimmed)]

(* ----------------------------- listing page ---------------------------- *)
\* The first of the ARTICLE_SELECTORS.
ARTICLE_SELECTORS == <<".newsroom .news-item", ".article", ".teaser">>
\* The href of the first anchor of an element: none, absolute, root-relative
\* or relative, well-formed or not.
Hrefs == {"", "https://www.karlsruhe.de/a", "http://[", "/erstes", "zweites", "//["}
\* What extractText finds as the title of an element, "" when nothing.
Titles == {"", "Erste Meldung"}
\* An element of the listing document: the selectors it matches and what
\* the extraction steps read from it.
Elements ==
  [matches : SUBSET {ARTICLE_SELECTORS[i] : i \in 1..Len(ARTICLE_SELECTORS)},
   title : Titles, href : Hrefs, dateText : {<<NumericForm(9, 12, 2025)>>}]

\* $(selector): the elements of the document the selector matches, in
\* document order.
RECURSIVE select(_, _)
select(document, selector) ==
  IF document = <<>> THEN <<>>
  ELSE IF selector \in Head(document).matches
       THEN <<Head(document)>> \o select(Tail(document), selector)
       ELSE select(Tail(document), selector)

\* A finder that gathers the matches of every selector.
RECURSIVE findElementsOfAll(_, _)
findElementsOfAll(document, selectors) ==
  IF selectors = <<>> THEN Threw
  ELSE LET found == select(document, Head(selectors))
           rest == findElementsOfAll(document, Tail(selectors))
       IN IF found = <<>> THEN rest
          ELSE IF rest.status = "threw" THEN Returned(found)
          ELSE Returned(found \o rest.value)

\* ArticleElementFinder.findElements($, selectors)
RECURSIVE findElements(_, _)
findElements(document, selectors) ==
  IF selectors = <<>> THEN Threw
  ELSE LET found == select(document, Head(selectors))
       IN IF Len(found) > 0 THEN Returned(found)
          ELSE findElements(document, Tail(selectors))

\* new URL(link, base) for the links of the model: the href of the URL, or
\* a TypeError for a link that cannot be parsed.
NewURL(link) ==
  IF link = "/erstes" THEN Returned("https://www.karlsruhe.de/erstes")
  ELSE IF link = "zweites" THEN Returned("https://www.karlsruhe.de/zweites")
  ELSE IF link \in {"https://www.karlsruhe.de/a", "https://www.karlsruhe.de/erstes",
                    "https://www.karlsruhe.de/zweites"}
  THEN Returned(link)
  ELSE Threw
startsWith(link, prefix) ==
  IF prefix = "http" THEN link \in {"https://www.karlsruhe.de/a", "http://["}
  ELSE link \in {"/erstes", "//["}

\* LinkNormalizer.normalize(link)
normalize(link) ==
  IF link = "" THEN Returned("")
  ELSE IF startsWith(link, "http") THEN Returned(link)
  ELSE NewURL(link)
\* A validity check that only asks for a non-empty string.
isValidIfNotEmpty(url) == url # ""
\* LinkNormalizer.isValid(url)
isValid(url) ==
  IF url = "" THEN FALSE ELSE NewURL(url).status = "returned"

\* parseArticleElement without its try/catch.
parseArticleElementUncaught(element, now, zone) ==
  IF element.title = "" THEN Returned(Null) @@ [warned |-> FALSE]
  ELSE LET link == normalize(element.href)
       IN IF link.status = "threw" THEN Threw @@ [warned |-> FALSE]
          ELSE IF ~isValid(link.value) THEN Returned(Null) @@ [warned |-> FALSE]
          ELSE Returned(Some([title |-> element.title, link |-> link.value,
                              date |-> parse(element.dateText, now, zone).value]))
               @@ [warned |-> FALSE]

\* ParserService.parseArticleElement(element): a preview or null, and
\* whether it logged the warning of its catch.
parseArticleElement(element, now, zone) ==
  IF element.title = "" THEN Returned(Null) @@ [warned |-> FALSE]
  ELSE LET link == normalize(element.href)
       IN IF link.status = "threw" THEN Returned(Null) @@ [warned |-> TRUE]
          ELSE IF ~isValid(link.value) THEN Returned(Null) @@ [warned |-> FALSE]
          ELSE Returned(Some([title |-> element.title, link |-> link.value,
                              date |-> parse(element.dateText, now, zone).value]))
               @@ [warned |-> FALSE]

\* The html of a listing page: blank, or a document.
BlankHtml == [blank |-> TRUE, document |-> <<>>]
Html(document) == [blank |-> FALSE, document |-> document]

\* elements.each(...) of parseArticles: the previews pushed, the warnings
\* logged, and whether a callback threw.
RECURSIVE each(_, _, _)
each(elements, now, zone) ==
  IF elements = <<>> THEN [status |-> "returned", value |-> <<>>, warnings |-> 0]
  ELSE LET article == parseArticleElement(Head(elements), now, zone)
           rest == each(Tail(elements), now, zone)
       IN IF article.status = "threw" \/ rest.status = "threw"
          THEN [status |-> "threw", value |-> <<>>, warnings |-> 0]
          ELSE [status |-> "returned",
                value |-> article.value \o rest.value,
                warnings |-> (IF article.warned THEN 1 ELSE 0) + rest.warnings]

\* ParserService.parseArticles(html)
parseArticles(html, now, zone) ==
  IF html.blank THEN [status |-> "threw", value |-> <<>>, warnings |-> 0]
  ELSE LET elements == findElements(html.document, ARTICLE_SELECTORS)
       IN IF elements.status = "threw"
          THEN [status |-> "threw", value |-> <<>>, warnings |-> 0]
          ELSE each(elements.value, now, zone)

(* --------------------------- content extractor ------------------------- *)
\* A text is a sequence of characters, each a word character "w", another
\* visible character "." or whitespace " ".
Rep(c, n) == [i \in 1..n |-> c]
ValidText == Rep("w", 3) \o Rep(".", 17)
Texts == {<<>>, <<" ">>, Rep("w", 3), Rep(".", 17), ValidText}
\* text.trim()
RECURSIVE trimText(_)
trimText(text) ==
  IF text = <<>> THEN text
  ELSE IF Head(text) = " " THEN trimText(Tail(text))
  ELSE IF text[Len(text)] = " " THEN trimText(SubSeq(text, 1, Len(text) - 1))
  ELSE text

\* Markup is a text followed by elements; an element has a tag, attribute
\* names and markup of its own.
Markup(text, nodes) == [text |-> text, nodes |-> nodes]
EmptyMarkup == Markup(<<>>, <<>>)
InnerAttributes == {{}, {"onload", "style"}}
OuterAttributes == {{}, {"onclick", "style", "class"}}
InnerElements ==
  [tag : {"span", "script", "p"}, attrs : InnerAttributes,
   content : {Markup(t, <<>>) : t \in Texts}]
MaxChildren == 2
OuterElements ==
  [tag : {"article", "p", "header"}, attrs : OuterAttributes,
   content : {Markup(t, c) : t \in Texts, c \in BoundedSeq(InnerElements, MaxChildren)}]

STRIP_SELECTORS == {"script", "style", "nav", "iframe", "noscript", "footer", "header"}
PREFERRED_CONTAINERS == <<"article", "main", ".news", ".content", "body">>
MIN_CONTENT_LENGTH == 20
MIN_WORD_LENGTH == 3

\* $.text(): the text of markup with the tags stripped.
RECURSIVE textOf(_)
RECURSIVE textOfNodes(_)
textOf(markup) == markup.text \o textOfNodes(markup.nodes)
textOfNodes(nodes) ==
  IF nodes = <<>> THEN <<>>
  ELSE textOf(Head(nodes).content) \o textOfNodes(Tail(nodes))

\* !content?.trim(): markup that is the empty or a whitespace-only string.
IsBlank(markup) == markup.nodes = <<>> /\ trimText(markup.text) = <<>>

\* $(selector).remove() for each of STRIP_SELECTORS
RECURSIVE removeUnwantedElements(_)
RECURSIVE removeUnwantedNodes(_)
removeUnwantedElements(markup) == Markup(markup.text, removeUnwantedNodes(markup.nodes))
removeUnwantedNodes(nodes) ==
  IF nodes = <<>> THEN <<>>
  ELSE IF Head(nodes).tag \in STRIP_SELECTORS THEN removeUnwantedNodes(Tail(nodes))
  ELSE <<[Head(nodes) EXCEPT !.content = removeUnwantedElements(@)]>>
       \o removeUnwantedNodes(Tail(nodes))

\* attr.startsWith('on') for the attribute names of the model
startsWithOn(attr) == attr \in {"onclick", "onload"}
\* delete el.attribs[attr] for every on* and style attribute of every element
RECURSIVE removeInlineScripts(_)
RECURSIVE removeInlineOfNodes(_)
removeInlineScripts(markup) == Markup(markup.text, removeInlineOfNodes(markup.nodes))
removeInlineOfNodes(nodes) ==
  IF nodes = <<>> THEN <<>>
  ELSE <<[Head(nodes) EXCEPT
            !.attrs = {a \in @ : ~(startsWithOn(a) \/ a = "style")},
            !.content = removeInlineScripts(@)]>>
       \o removeInlineOfNodes(Tail(nodes))

\* $('p').each: remove the paragraphs whose trimmed text is empty
RECURSIVE removeEmptyParagraphs(_)
RECURSIVE removeEmptyOfNodes(_)
removeEmptyParagraphs(markup) == Markup(markup.text, removeEmptyOfNodes(markup.nodes))
removeEmptyOfNodes(nodes) ==
  IF nodes = <<>> THEN <<>>
  ELSE IF Head(nodes).tag = "p" /\ trimText(textOf(Head(nodes).content)) = <<>>
       THEN removeEmptyOfNodes(Tail(nodes))
  ELSE <<[Head(nodes) EXCEPT !.content = removeEmptyParagraphs(@)]>>
       \o removeEmptyOfNodes(Tail(nodes))

\* $.html().trim(): whitespace at the ends of the serialized markup goes.
RECURSIVE trimTextStart(_)
trimTextStart(text) ==
  IF text # <<>> /\ Head(text) = " " THEN trimTextStart(Tail(text)) ELSE text
trimHtml(markup) ==
  IF markup.nodes = <<>> THEN Markup(trimText(markup.text), <<>>)
  ELSE Markup(trimTextStart(markup.text), markup.nodes)

\* A sanitizer that leaves the attributes alone.
sanitizeHtmlKeepingAttributes(content) ==
  IF IsBlank(content) THEN EmptyMarkup
  ELSE LET done == removeEmptyParagraphs(removeUnwantedElements(content))
       IN trimHtml(done)

\* ContentExtractorService.sanitizeHtml(content); '' is EmptyMarkup
sanitizeHtml(content) ==
  IF IsBlank(content) THEN EmptyMarkup
  ELSE LET done == removeEmptyParagraphs(removeInlineScripts(
                     removeUnwantedElements(content)))
       IN trimHtml(done)

\* /\w{3,}/.test(text)
hasWordRun(text) ==
  \E i \in 1..(Len(text) - MIN_WORD_LENGTH + 1) :
    \A k \in 0..(MIN_WORD_LENGTH - 1) : text[i + k] = "w"

\* A validity check of the length alone.
isValidContentByLength(content) ==
  /\ content # EmptyMarkup
  /\ Len(trimText(textOf(content))) >= MIN_CONTENT_LENGTH

\* ContentExtractorService.isValidContent(content)
isValidContent(content) ==
  /\ content # EmptyMarkup
  /\ Len(trimText(textOf(content))) >= MIN_CONTENT_LENGTH
  /\ hasWordRun(trimText(textOf(content)))

\* paragraph.replace(/\s+/g, ' ')
RECURSIVE collapseWhitespace(_)
collapseWhitespace(text) ==
  IF Len(text) < 2 THEN text
  ELSE IF text[1] = " " /\ text[2] = " " THEN collapseWhitespace(Tail(text))
  ELSE <<Head(text)>> \o collapseWhitespace(Tail(text))

\* ContentExtractorService.buildHtmlFromPlainText(textContent), for a text of
\* one line: Null, or the text as one paragraph.
buildHtmlFromPlainText(textContent) ==
  LET normalized == trimText(textContent)
  IN IF normalized = <<>> THEN Null
     ELSE Some(Markup(<<>>, <<[tag |-> "p", attrs |-> {},
                               content |-> Markup(collapseWhitespace(normalized), <<>>)]>>))

\* What the reader (JSDOM and Readability) does with a page: it throws, finds
\* no article, or returns an article with content and text content.
ReaderThrows == [kind |-> "throws"]
ReaderNull == [kind |-> "null"]
ReaderArticle(content, textContent) ==
  [kind |-> "article", content |-> content, textContent |-> textContent]

ExtractError(name) == [status |-> "threw", value |-> Null, error |-> name]

\* value || null for a sanitized string
orNull(content) == IF content = EmptyMarkup THEN Null ELSE Some(content)

\* ContentExtractorService.extractWithReadability(html, url): Returned(Null),
\* Returned(Some(content)), or the reader's own exception.
extractWithReadability(html, reader) ==
  IF reader.kind = "throws" THEN ExtractError("ReaderError")
  ELSE IF reader.kind = "null" THEN Returned(Null)
  ELSE IF reader.content = EmptyMarkup /\ reader.textContent = <<>> THEN Returned(Null)
  ELSE IF ~IsBlank(reader.content)
       THEN Returned(orNull(sanitizeHtml(reader.content)))
  ELSE LET structuredContent == buildHtmlFromPlainText(trimText(reader.textContent))
       IN IF structuredContent = Null THEN Returned(Null)
          ELSE Returned(orNull(sanitizeHtml(structuredContent[1])))

\* The body of a page is markup; the page's containers, in the order of
\* PREFERRED_CONTAINERS, are the elements of that name and the body itself.
RECURSIVE firstOfTag(_, _)
firstOfTag(nodes, tag) ==
  IF nodes = <<>> THEN Null
  ELSE IF Head(nodes).tag = tag THEN Some(Head(nodes).content)
  ELSE IF firstOfTag(Head(nodes).content.nodes, tag) # Null
       THEN firstOfTag(Head(nodes).content.nodes, tag)
  ELSE firstOfTag(Tail(nodes), tag)

\* $(selector).first().html(), Null where nothing matches
containerHtml(body, selector) ==
  IF selector = "body" THEN Some(body) ELSE firstOfTag(body.nodes, selector)

\* ContentExtractorService.extractFallbackHtml(html)
extractFallbackHtml(body) ==
  LET stripped == removeUnwantedElements(body)
      found == SelectSeq(PREFERRED_CONTAINERS,
                 LAMBDA selector :
                   /\ containerHtml(stripped, selector) # Null
                   /\ containerHtml(stripped, selector)[1] # EmptyMarkup)
  IN IF found # <<>> THEN Some(sanitizeHtml(containerHtml(stripped, Head(found))[1]))
     ELSE Null

\* ContentExtractorService.extract(html, url)
extract(html, reader) ==
  IF html = BlankHtml THEN ExtractError("EmptyInput")
  ELSE LET attempt == extractWithReadability(html.body, reader)
           fallback == extractFallbackHtml(html.body)
       IN IF attempt.status = "threw" THEN attempt
          ELSE IF attempt.value # Null /\ isValidContent(attempt.value[1])
               THEN Returned(attempt.value[1])
          ELSE IF fallback # Null /\ fallback[1] # EmptyMarkup /\ isValidContent(fallback[1])
               THEN Returned(fallback[1])
          ELSE ExtractError("ExtractionFailed")

(* ------------------------ utilities on their own ----------------------- *)
\* Instants around midnight of 2024-01-15 UTC.
GenerateDates ==
  {NewDate(2024, 0, 15, 0) + h : h \in {-1, 0, 1, 12, 23, 24}} \cup {InvalidDate}

InitUnits ==
  /\ trackingFile = AbsentFile
  /\ feedFile = NoFeed
  /\ clock = 0
  /\ runs = 0
  /\ pc = "units"
  /\ listing = "none"
  /\ previews = <<>>
  /\ detail = <<>>
  /\ results = <<>>
  /\ order = <<>>
  /\ detailedArticles = <<>>
  /\ loaded = EmptyStore
  /\ tracking = EmptyStore
  /\ changes = NoChanges
  /\ summary = summarize
  /\ error = "none"
  /\ exitCode = -1
  /\ feedWrites = 0
  /\ trackingWrites = 0
  /\ observed = {}
  /\ call = NoCall
  /\ ret = NoCall

pipelineVars == <<trackingFile, feedFile, clock, runs, pc, listing, previews, detail,
                  results, order, detailedArticles, loaded, tracking, changes,
                  summary, error, exitCode, feedWrites, trackingWrites, observed>>

\* IdGenerator.generate(content, date) in a process of some zone.
GenerateCall ==
  /\ pc = "units"
  /\ call = NoCall
  /\ \E content \in Contents, date \in GenerateDates, zone \in TimezoneOffsets :
       /\ call' = [fn |-> "generate", content |-> content, date |-> date,
                   zone |-> zone]
       /\ ret' = IF generateThrows(date) THEN Threw
                 ELSE Returned(generate(content, date))
  /\ UNCHANGED pipelineVars

\* Articles of two days, and lists of them: short ones in every order, and
\* one article repeated up to and beyond the limit of the feed.
FeedDates == {5, 5 + HoursPerDay}
FeedArticles ==
  {Article([link |-> l, date |-> d], generate("c1", d), "c1") :
     l \in Links, d \in FeedDates}
FeedInputs ==
  BoundedSeq(FeedArticles, MaxPreviews)
  \cup {[i \in 1..n |-> a] : n \in {MAX_ARTICLES, MAX_ARTICLES + 1}, a \in FeedArticles}

\* FeedService.generate(articles): the items of the document it writes.
FeedCall ==
  /\ pc = "units"
  /\ call = NoCall
  /\ \E articles \in FeedInputs :
       /\ call' = [fn |-> "feed", articles |-> articles]
       /\ ret' = Returned(feedItems(articles))
  /\ UNCHANGED pipelineVars

\* The month names as a page may write them: as in GERMAN_MONTHS, in lower
\* case, in upper case; and a word that is no month.
LowerCaseMonthNames ==
  <<"januar", "februar", "märz", "april", "mai", "juni", "juli", "august",
    "september", "oktober", "november", "dezember">>
UpperCaseMonthNames ==
  <<"JANUAR", "FEBRUAR", "MÄRZ", "APRIL", "MAI", "JUNI", "JULI", "AUGUST",
    "SEPTEMBER", "OKTOBER", "NOVEMBER", "DEZEMBER">>
WrittenNames ==
  {GermanMonthNames[i] : i \in 1..12} \cup {LowerCaseMonthNames[i] : i \in 1..12}
  \cup {UpperCaseMonthNames[i] : i \in 1..12} \cup {"Stock"}

\* A count of days so large that the date leaves the range of Date.
HugeCount == 300000000
MaxPieces == 2
Pieces ==
  {Relative("Stunde", 2), Relative("Minute", 120), Relative("Tag", 3),
   Relative("Tag", HugeCount),
   Word("gestern"), Word("heute"), Word("space"), Word("other")}
  \cup {MonthForm(15, name, 2024) : name \in WrittenNames}
  \cup {NumericForm(15, 1, 2024), NumericForm(9, 12, 2025), NumericForm(31, 2, 2024),
        NumericForm(15, 13, 2024), NumericForm(15, 0, 2024), NumericForm(15, 1, 50)}
  \cup {IsoForm(2024, 1, 15), IsoForm(2024, 3, 5), IsoForm(2024, 2, 30),
        IsoForm(50, 1, 15)}
ParseTexts == BoundedSeq(Pieces, MaxPieces)
\* Midnight and noon of 2024-01-15 UTC.
Nows == {NewDate(2024, 0, 15, 0) + h : h \in {0, 12}}

\* GermanDateParser.parse(text) at the instant now.
ParseCall ==
  /\ pc = "units"
  /\ call = NoCall
  /\ \E text \in ParseTexts, now \in Nows, zone \in TimezoneOffsets :
       /\ call' = [fn |-> "parse", text |-> text, now |-> now, zone |-> zone]
       /\ ret' = parse(text, now, zone)
  /\ UNCHANGED pipelineVars

\* The listing documents: up to MaxPreviews elements.
Documents == BoundedSeq(Elements, MaxPreviews)

\* ArticleElementFinder.findElements on a loaded document.
FindCall ==
  /\ pc = "units"
  /\ call = NoCall
  /\ \E document \in Documents :
       /\ call' = [fn |-> "findElements", document |-> document,
                   selectors |-> ARTICLE_SELECTORS]
       /\ ret' = findElements(document, ARTICLE_SELECTORS)
  /\ UNCHANGED pipelineVars

\* ParserService.parseArticles on the html of a listing page.
ParseArticlesCall ==
  /\ pc = "units"
  /\ call = NoCall
  /\ \E html \in {BlankHtml} \cup {Html(d) : d \in Documents} :
       /\ call' = [fn |-> "parseArticles", html |-> html,
                   now |-> NewDate(2024, 0, 15, 0), zone |-> 0]
       /\ ret' = parseArticles(html, NewDate(2024, 0, 15, 0), 0)
  /\ UNCHANGED pipelineVars

WordlessText == Rep(".", MIN_CONTENT_LENGTH)
Pages == {[body |-> Markup(<<>>, <<e>>)] : e \in OuterElements}
Readers(html) ==
  {ReaderThrows, ReaderNull}
    \cup {ReaderArticle(EmptyMarkup, t) : t \in Texts \cup {WordlessText}}
    \cup (IF html = BlankHtml THEN {} ELSE {ReaderArticle(html.body, textOf(html.body))})

ExtractCall ==
  /\ pc = "units"
  /\ call = NoCall
  /\ \E html \in {BlankHtml} \cup Pages :
       \E reader \in Readers(html) :
         /\ call' = [fn |-> "extract", html |-> html, reader |-> reader]
         /\ ret' = extract(html, reader)
  /\ UNCHANGED pipelineVars

\* Date texts of a listing that are one absolute date, in each of the forms.
AbsoluteDateTexts ==
  {<<NumericForm(15, 1, 2024)>>, <<NumericForm(9, 12, 2025)>>, <<NumericForm(1, 1, 2024)>>,
   <<IsoForm(2024, 3, 5)>>, <<IsoForm(2023, 12, 31)>>, <<MonthForm(15, "Januar", 2024)>>}

\* parseArticleElement parses the date text of a preview and buildArticle
\* gives that date and the extracted content to generateId.
GenerateIdCall ==
  /\ pc = "units"
  /\ call = NoCall
  /\ \E dateText \in AbsoluteDateTexts, content \in Contents, now \in Nows,
        zone \in TimezoneOffsets :
       LET date == parse(dateText, now, zone).value
       IN /\ call' = [fn |-> "generateId", dateText |-> dateText, content |-> content,
                      now |-> now, zone |-> zone]
          /\ ret' = IF generateThrows(date) THEN Threw
                    ELSE Returned(generate(content, date))
  /\ UNCHANGED pipelineVars

\* The two versions of detectChanges called with the same list, each on an
\* object of its own holding the same store.
DetectChangesCall ==
  /\ pc = "units"
  /\ call = NoCall
  /\ \E articles \in BoundedSeq(ArticleValues, MaxPreviews), store \in FileStores :
       /\ call' = [fn |-> "detectChanges", articles |-> articles, tracking |-> store,
                   now |-> 1]
       /\ ret' = [inPlace |-> detectChangesInPlace(articles, store, 1),
                  copy |-> detectChanges(articles, store, 1)]
  /\ UNCHANGED pipelineVars

NextUnits ==
  \/ DetectChangesCall
  \/ ExtractCall
  \/ GenerateIdCall
  \/ GenerateCall
  \/ FeedCall
  \/ ParseCall
  \/ FindCall
  \/ ParseArticlesCall

SpecUnits == InitUnits /\ [][NextUnits]_vars

\* C13: the id depends only on the content and the calendar day of the
\* date: the hash input is "<that calendar day>|<content>", and every date
\* on the same calendar day, whatever its time of day and the zone offset,
\* gives the same id.
C13_CalendarDayOnly ==
  (call.fn = "generate" /\ ret.status = "returned") =>
    /\ ret.value = md5(<<LocalDay(call.date, call.zone), "|", call.content>>)
    /\ \A d2 \in GenerateDates \ {InvalidDate} :
         LocalDay(d2, call.zone) = LocalDay(call.date, call.zone) =>
           generate(call.content, d2) = ret.value

\* The ids the article a would have had with another content on the same
\* date.
OldIdsOf(a) == {generate(c, a.date) : c \in Contents \ {a.content}}

C15_NoDuplicateIds ==
  feedFile.exists =>
    \A i, j \in 1..Len(feedFile.items) :
      i # j => feedFile.items[i].id # feedFile.items[j].id

\* C16: the emitted feed has at most MAX_ARTICLES items, sorted by date,
\* newest first.
C16_BoundedAndNewestFirst ==
  (call.fn = "feed" /\ ret.status = "returned") =>
    /\ Len(ret.value) <= MAX_ARTICLES
    /\ \A i \in 1..(Len(ret.value) - 1) :
         ret.value[i].date >= ret.value[i + 1].date

ParseReturned == call.fn = "parse" /\ ret.status = "returned"

\* The index of a month name written in any casing, -1 for another word.
MonthIndexAnyCasing(name) ==
  IF \E i \in 1..12 : name \in {GermanMonthNames[i], LowerCaseMonthNames[i],
                                 UpperCaseMonthNames[i]}
  THEN (CHOOSE i \in 1..12 : name \in {GermanMonthNames[i], LowerCaseMonthNames[i],
                                        UpperCaseMonthNames[i]}) - 1
  ELSE -1
\* A piece is an occurrence of a pattern of the list.
IsMonthNameForm(piece) == piece.kind = "monthForm" /\ MonthIndexAnyCasing(piece.name) >= 0
Occurs(text, P(_)) == \E i \in 1..Len(text) : P(text[i])
Leftmost(text, P(_)) ==
  text[CHOOSE i \in 1..Len(text) : P(text[i]) /\ \A j \in 1..(i - 1) : ~P(text[j])]
IsStunde(piece) == piece.kind = "Stunde"
IsMinute(piece) == piece.kind = "Minute"
IsTag(piece) == piece.kind = "Tag"
IsGestern(piece) == piece.kind = "gestern"
IsHeute(piece) == piece.kind = "heute"
IsNumericForm(piece) == piece.kind = "numericForm"
IsIsoForm(piece) == piece.kind = "isoForm"
RelativeOccurs(text) ==
  \/ Occurs(text, IsStunde) \/ Occurs(text, IsMinute) \/ Occurs(text, IsTag)
  \/ Occurs(text, IsGestern) \/ Occurs(text, IsHeute)

\* The date of the first pattern, in the fixed order, that occurs anywhere
\* in the text; now when none occurs.
FirstPatternDate(text, now, zone) ==
  IF Occurs(text, IsStunde)
  THEN subtractMilliseconds(now, calculateMilliseconds(Leftmost(text, IsStunde).value, 0, 0))
  ELSE IF Occurs(text, IsMinute)
  THEN subtractMilliseconds(now, calculateMilliseconds(0, Leftmost(text, IsMinute).value, 0))
  ELSE IF Occurs(text, IsTag)
  THEN subtractMilliseconds(now, calculateMilliseconds(0, 0, Leftmost(text, IsTag).value))
  ELSE IF Occurs(text, IsGestern) THEN now - HoursPerDay
  ELSE IF Occurs(text, IsHeute) THEN now
  ELSE IF Occurs(text, IsMonthNameForm)
  THEN LET m == Leftmost(text, IsMonthNameForm)
       IN NewDate(m.year, MonthIndexAnyCasing(m.name), m.day, zone)
  ELSE IF Occurs(text, IsNumericForm)
  THEN LET n == Leftmost(text, IsNumericForm)
       IN NewDate(n.year, n.month - 1, n.day, zone)
  ELSE IF Occurs(text, IsIsoForm)
  THEN LET n == Leftmost(text, IsIsoForm)
       IN NewDate(n.year, n.month - 1, n.day, zone)
  ELSE now

\* C17: parse resolves a text by the first pattern, in the order hour,
\* minute, day, gestern, heute, month name, numeric, ISO, that occurs
\* anywhere in the text; no later pattern affects the result.
C17_FirstPatternWins ==
  ParseReturned => ret.value = FirstPatternDate(trim(call.text), call.now, call.zone)

\* C18: '<D>. <name> <YYYY>' with one of the 12 month names in any casing
\* and no relative phrase gives the date of that year, month and day, not
\* the fallback.
C18_MonthNameAnyCasing ==
  (/\ ParseReturned
   /\ Len(trim(call.text)) = 1
   /\ IsMonthNameForm(trim(call.text)[1])) =>
    LET m == trim(call.text)[1]
    IN /\ ret.value = NewDate(m.year, MonthIndexAnyCasing(m.name), m.day, call.zone)
       /\ ret.warning = Null

\* The parts of the numeric or ISO form that decides a text in which no
\* earlier pattern occurs.
NumericOrIsoDecides(text) ==
  /\ ~RelativeOccurs(text)
  /\ match(text, "monthForm") = 0
  /\ Occurs(text, IsNumericForm) \/ Occurs(text, IsIsoForm)
DecidingForm(text) ==
  IF Occurs(text, IsNumericForm) THEN Leftmost(text, IsNumericForm)
  ELSE Leftmost(text, IsIsoForm)
DaysInMonth(y, month) ==
  IF month = 12 THEN 31
  ELSE DaysBeforeMonth(y, month) - DaysBeforeMonth(y, month - 1)
\* The parts are a date of the calendar, in a year of three digits or more.
IsCalendarDate(form) ==
  /\ form.year >= 100
  /\ form.month \in 1..12
  /\ form.day \in 1..DaysInMonth(form.year, form.month)
HasParts(date, zone, form) ==
  /\ getFullYear(date, zone) = form.year
  /\ getMonth(date, zone) = form.month - 1
  /\ getDate(date, zone) = form.day

\* C19 as claimed: for every text that matches the numeric or the ISO form
\* and no earlier pattern, the date returned has the year, the month (less
\* one) and the day of the matched parts.
C19_AsClaimed ==
  (ParseReturned /\ NumericOrIsoDecides(trim(call.text))) =>
    HasParts(ret.value, call.zone, DecidingForm(trim(call.text)))

\* C19 amended: the same for every such text whose matched parts are a date
\* of the calendar in a year from 100 on; no warning is logged then.
C19_NumericAndIsoParts ==
  (/\ ParseReturned
   /\ NumericOrIsoDecides(trim(call.text))
   /\ IsCalendarDate(DecidingForm(trim(call.text)))) =>
    /\ HasParts(ret.value, call.zone, DecidingForm(trim(call.text)))
    /\ ret.warning = Null

\* parse("09.12.2025") gave 9 December 2025.
C19_Witness ==
  /\ ParseReturned
  /\ call.text = <<NumericForm(9, 12, 2025)>>
  /\ getFullYear(ret.value, call.zone) = 2025
  /\ getMonth(ret.value, call.zone) = 11
  /\ getDate(ret.value, call.zone) = 9

\* No piece of the text is an occurrence of a pattern.
NoPatternOccurs(text) ==
  /\ ~RelativeOccurs(text)
  /\ ~Occurs(text, IsMonthNameForm)
  /\ ~Occurs(text, IsNumericForm)
  /\ ~Occurs(text, IsIsoForm)

\* C20: every call of parse returns a Date and does not throw; when no
\* pattern occurs it returns the now of the call and logs a warning with the
\* trimmed text; a warning is logged only together with that fallback.
C20_ParseIsTotal ==
  call.fn = "parse" =>
    /\ ret.status = "returned"
    /\ ret.value \in Int
    /\ NoPatternOccurs(trim(call.text)) =>
         /\ ret.value = call.now
         /\ ret.warning = Some(trim(call.text))
    /\ ret.warning # Null =>
         /\ ret.value = call.now
         /\ ret.warning = Some(trim(call.text))

\* The whitespace-only text: now, and a warning with the empty text.
C20_Witness ==
  /\ ParseReturned
  /\ call.text = <<Word("space"), Word("space")>>
  /\ ret.value = call.now
  /\ ret.warning = Some(<<>>)

\* The selector matches an element of the document.
Matches(document, selector) ==
  \E i \in 1..Len(document) : selector \in document[i].matches

\* C21: findElements returns exactly the elements matched by the selector
\* of lowest index that matches an element, in document order, with no
\* match of a later selector merged in; it throws ParseError if and only if
\* no selector of the list matches an element.
C21_FirstMatchingSelector ==
  call.fn = "findElements" =>
    /\ ret.status = "threw" <=>
         \A k \in 1..Len(call.selectors) : ~Matches(call.document, call.selectors[k])
    /\ ret.status = "returned" =>
         \E k \in 1..Len(call.selectors) :
           /\ Matches(call.document, call.selectors[k])
           /\ \A j \in 1..(k - 1) : ~Matches(call.document, call.selectors[j])
           /\ ret.value = select(call.document, call.selectors[k])
           /\ \A i \in 1..Len(ret.value) : call.selectors[k] \in ret.value[i].matches

\* The first selector matches nothing, the second one element and the third
\* another one: only the element of the second is returned.
C21_Witness ==
  /\ call.fn = "findElements"
  /\ ret.status = "returned"
  /\ Len(call.document) = 2
  /\ ~Matches(call.document, call.selectors[1])
  /\ call.document[1].matches = {call.selectors[3]}
  /\ call.document[2].matches = {call.selectors[2]}
  /\ ret.value = <<call.document[2]>>

ParseArticlesReturned == call.fn = "parseArticles" /\ ret.status = "returned"
\* The candidate elements of a document: those of the first selector that
\* matches any.
Candidates(document) ==
  IF \E k \in 1..Len(ARTICLE_SELECTORS) : Matches(document, ARTICLE_SELECTORS[k])
  THEN select(document,
              ARTICLE_SELECTORS[CHOOSE k \in 1..Len(ARTICLE_SELECTORS) :
                /\ Matches(document, ARTICLE_SELECTORS[k])
                /\ \A j \in 1..(k - 1) : ~Matches(document, ARTICLE_SELECTORS[j])])
  ELSE <<>>
\* The hrefs that stand for a well-formed URL, and the URL they stand for.
WellFormedHrefs == {"https://www.karlsruhe.de/a", "/erstes", "zweites"}
AbsoluteURL(href) ==
  IF href = "/erstes" THEN "https://www.karlsruhe.de/erstes"
  ELSE IF href = "zweites" THEN "https://www.karlsruhe.de/zweites"
  ELSE href
HasTitleAndLink(element) == element.title # "" /\ element.href \in WellFormedHrefs
RECURSIVE TitlesAndLinksOf(_)
TitlesAndLinksOf(elements) ==
  IF elements = <<>> THEN <<>>
  ELSE IF HasTitleAndLink(Head(elements))
       THEN <<[title |-> Head(elements).title,
               link |-> AbsoluteURL(Head(elements).href)]>>
            \o TitlesAndLinksOf(Tail(elements))
       ELSE TitlesAndLinksOf(Tail(elements))
RECURSIVE CountMalformed(_)
CountMalformed(elements) ==
  IF elements = <<>> THEN 0
  ELSE (IF Head(elements).title # "" /\ Head(elements).href = "//[" THEN 1 ELSE 0)
       + CountMalformed(Tail(elements))

\* C22: parseArticles returns one preview for exactly the candidate
\* elements with a non-empty title and a first-anchor link that normalizes
\* to a valid URL, in the document order of those elements; every preview
\* has a non-empty title and a link that passes isValid.
C22_PreviewsInDocumentOrder ==
  ParseArticlesReturned =>
    /\ [i \in 1..Len(ret.value) |->
          [title |-> ret.value[i].title, link |-> ret.value[i].link]]
       = TitlesAndLinksOf(Candidates(call.html.document))
    /\ \A i \in 1..Len(ret.value) :
         /\ ret.value[i].title # ""
         /\ ret.value[i].link \in {AbsoluteURL(h) : h \in WellFormedHrefs}

\* Of three kinds of candidates, one without title, one with a link that is
\* no URL and one complete, in a document of two: the complete one second.
C22_Witness ==
  /\ ParseArticlesReturned
  /\ Len(Candidates(call.html.document)) = 2
  /\ Candidates(call.html.document)[1].href = "http://["
  /\ Candidates(call.html.document)[1].title # ""
  /\ Len(ret.value) = 1
  /\ ret.value[1].link = "https://www.karlsruhe.de/zweites"

\* C23: when some article selector matches, parseArticles returns normally
\* even though link normalization throws for some elements: each of them is
\* skipped with one warning and every other element is processed.
C23_MalformedElementSkipped ==
  (/\ call.fn = "parseArticles"
   /\ ~call.html.blank
   /\ Candidates(call.html.document) # <<>>) =>
    /\ ret.status = "returned"
    /\ ret.warnings = CountMalformed(Candidates(call.html.document))
    /\ Len(ret.value) = Len(TitlesAndLinksOf(Candidates(call.html.document)))

\* The first candidate has an href that makes new URL throw, the second is
\* complete: one warning, one preview.
C23_Witness ==
  /\ ParseArticlesReturned
  /\ Len(Candidates(call.html.document)) = 2
  /\ Candidates(call.html.document)[1].href = "//["
  /\ Candidates(call.html.document)[1].title # ""
  /\ ret.warnings = 1
  /\ Len(ret.value) = 1
  /\ ret.value[1].link = "https://www.karlsruhe.de/erstes"


(* ------------------ properties of the content extractor ---------------- *)
ExtractReturned == pc = "units" /\ call.fn = "extract"

\* What a strategy yields: Some(content) where its result passes the validity
\* check, Null where it has no result, an invalid one, or the reader failed.
ReadabilityYield(html, reader) ==
  LET attempt == extractWithReadability(html.body, reader)
  IN IF attempt.status = "returned" /\ attempt.value # Null
        /\ isValidContent(attempt.value[1])
     THEN attempt.value ELSE Null
FallbackYield(html) ==
  LET fallback == extractFallbackHtml(html.body)
  IN IF fallback # Null /\ isValidContent(fallback[1]) THEN fallback ELSE Null

\* C24: extract returns the readability result when that is valid; when the
\* readability strategy yields nothing valid (no result, an invalid result, a
\* failure inside the reader) it returns the fallback's result when that is
\* valid; it fails with the extraction error exactly when neither strategy
\* yields valid content.
C24_ReadabilityThenFallback ==
  (ExtractReturned /\ call.html # BlankHtml) =>
    LET readable == ReadabilityYield(call.html, call.reader)
        fallback == FallbackYield(call.html)
    IN /\ readable # Null => ret = Returned(readable[1])
       /\ (readable = Null /\ fallback # Null) => ret = Returned(fallback[1])
       /\ (ret.status = "threw" /\ ret.error = "ExtractionFailed")
            <=> (readable = Null /\ fallback = Null)
       /\ ret.status = "threw" => ret.error = "ExtractionFailed"

PlainText(content) == trimText(textOf(content))

\* C25: every content extract returns has, as plain text with the markup
\* stripped and trimmed, at least 20 characters and a run of at least 3 word
\* characters.
C25_ReturnedContentIsValid ==
  (ExtractReturned /\ ret.status = "returned") =>
    /\ Len(PlainText(ret.value)) >= 20
    /\ \E i \in 1..(Len(PlainText(ret.value)) - 2) :
         /\ PlainText(ret.value)[i] = "w"
         /\ PlainText(ret.value)[i + 1] = "w"
         /\ PlainText(ret.value)[i + 2] = "w"

\* The readability result was long enough but held no word, and the content
\* of the fallback was returned.
C25_Witness ==
  /\ ExtractReturned
  /\ ret.status = "returned"
  /\ call.reader.kind = "article"
  /\ LET attempt == extractWithReadability(call.html.body, call.reader)
     IN /\ attempt.value # Null
        /\ Len(PlainText(attempt.value[1])) >= 20
        /\ attempt.value[1] # ret.value

\* The elements of markup, at every depth.
RECURSIVE ElementsOf(_)
ElementsOf(markup) ==
  UNION {{markup.nodes[i]} \cup ElementsOf(markup.nodes[i].content) :
           i \in 1..Len(markup.nodes)}
DisallowedElements == {"script", "style", "nav", "iframe", "noscript", "footer", "header"}
BeginsWithOn(attr) == attr \in {"onclick", "onload"}

\* C26: the content extract returns holds no script, style, nav, iframe,
\* noscript, footer or header element, no attribute whose name begins with
\* "on", no style attribute, and no paragraph whose trimmed text is empty.
C26_ReturnedContentIsSanitized ==
  (ExtractReturned /\ ret.status = "returned") =>
    \A element \in ElementsOf(ret.value) :
      /\ element.tag \notin DisallowedElements
      /\ \A attr \in element.attrs : ~BeginsWithOn(attr) /\ attr # "style"
      /\ element.tag = "p" => trimText(textOf(element.content)) # <<>>

\* Content was returned for a page that held a script element, elements with
\* an on* and a style attribute, and an empty paragraph.
C26_Witness ==
  /\ ExtractReturned
  /\ ret.status = "returned"
  /\ call.reader.kind = "article"
  /\ call.reader.content = call.html.body
  /\ \E element \in ElementsOf(call.html.body) : element.tag = "script"
  /\ \E element \in ElementsOf(call.html.body) :
       /\ element.tag = "p"
       /\ trimText(textOf(element.content)) = <<>>
  /\ \E element \in ElementsOf(call.html.body) :
       /\ element.tag # "script"
       /\ "style" \in element.attrs
       /\ \E attr \in element.attrs : BeginsWithOn(attr)

(* ------------------------ the order of a run's steps ------------------- *)
\* C27: in every run load comes first, then detectChanges, then the feed,
\* then save; the store is loaded at most once and saved at most once, save
\* is reached only after the feed was written, and a run whose feed
\* generation fails is rejected with the tracking file as it was.
C27_LoadDetectFeedSave ==
  /\ [](/\ trackingWrites <= 1
        /\ feedWrites <= 1
        /\ trackingWrites = 1 => feedWrites = 1
        /\ pc = "saving" => feedWrites = 1
        /\ pc \in {"feed", "saving"} => changes # NoChanges)
  /\ [][/\ (pc' = "loading" /\ pc # "loading") => (pc = "details" /\ changes = NoChanges)
        /\ (pc' = "feed" /\ pc # "feed") =>
             /\ pc = "loading"
             /\ loaded' = load(trackingFile).value
             /\ changes' # NoChanges
        /\ (pc' = "saving" /\ pc # "saving") => (pc = "feed" /\ feedWrites' = 1)
        /\ pc \in {"feed", "saving", "resolved", "rejected"} => pc' # "loading"
        /\ pc \in {"feed", "saving"} => (loaded' = loaded /\ changes' = changes)
        /\ trackingWrites' = trackingWrites + 1 => (pc = "saving" /\ feedWrites = 1)
        /\ trackingFile' # trackingFile => trackingWrites' = trackingWrites + 1
        /\ (pc = "feed" /\ pc' # "saving") =>
             /\ pc' = "rejected"
             /\ trackingFile' = trackingFile
             /\ trackingWrites' = 0
        /\ pc = "rejected" => (trackingFile' = trackingFile /\ pc' = "exited")]_vars

\* The second run loaded the file the first run saved and reconciled, then
\* its feed could not be written: it is rejected and has written nothing.
C27_Witness ==
  /\ pc = "rejected"
  /\ runs = 2
  /\ changes # NoChanges
  /\ loaded = trackingFile.data
  /\ trackingFile.kind = "data"
  /\ observed # {}
  /\ feedWrites = 0
  /\ trackingWrites = 0

(* ----------------------- the day that enters the id -------------------- *)
\* The month number a date text of one absolute date writes.
WrittenMonth(piece) ==
  IF piece.kind = "monthForm"
  THEN CHOOSE m \in 1..12 : GermanMonthNames[m] = piece.name
  ELSE piece.month
\* The day number of the calendar date year-month-day.
CalendarDay(year, month, day) == NewDate(year, month - 1, day, 0) \div 24

\* C28: for a preview whose date text is an absolute date (year, month, day),
\* the date in the hash input of its article is that year-month-day, whatever
\* the zone of the process and the time of the run.
C28_HashDayIsParsedDay ==
  (pc = "units" /\ call.fn = "generateId") =>
    LET piece == call.dateText[1]
    IN ret = Returned(md5(<<CalendarDay(piece.year, WrittenMonth(piece), piece.day),
                            "|", call.content>>))

(* ------------------- an id repeated within one call -------------------- *)
Occurrences(articles, id) == SelectSeq(articles, LAMBDA a : a.id = id)
RepeatedIds(articles) == {id \in IdsOf(articles) : Len(Occurrences(articles, id)) > 1}

\* C29: when an id occurs more than once in the list of one detectChanges
\* call, every occurrence is classified against the prior store, not against
\* what the call wrote for an earlier occurrence: with the id absent from the
\* prior store all occurrences are New, with the id present each occurrence
\* is Updated or Unchanged by the prior entry's link; the resulting entry
\* carries the link of the last occurrence.
C29_RepeatedIdAgainstPriorStore ==
  CallReturned =>
    \A id \in RepeatedIds(detailedArticles) :
      LET occurrences == Occurrences(detailedArticles, id)
      IN /\ ~Has(loaded, id) =>
              /\ Occurrences(changes.newArticles, id) = occurrences
              /\ Occurrences(changes.updated, id) = <<>>
         /\ Has(loaded, id) =>
              /\ Occurrences(changes.newArticles, id) = <<>>
              /\ Occurrences(changes.updated, id)
                   = SelectSeq(occurrences, LAMBDA a : a.link # loaded[id].link)
         /\ changes.unchanged
              = Len(SelectSeq(detailedArticles,
                              LAMBDA a : Has(loaded, a.id) /\ loaded[a.id].link = a.link))
         /\ changes.updatedTracking[id].link = occurrences[Len(occurrences)].link

\* A call on a store with other entries whose list holds one id twice, under
\* two links, the id being no key of the store: both are New and the entry
\* has the second link.
C29_Witness ==
  /\ CallReturned
  /\ loaded # EmptyStore
  /\ Len(detailedArticles) = 2
  /\ detailedArticles[1].id = detailedArticles[2].id
  /\ detailedArticles[1].link # detailedArticles[2].link
  /\ ~Has(loaded, detailedArticles[1].id)
  /\ changes.newArticles = detailedArticles
  /\ changes.updatedTracking[detailedArticles[2].id].link = detailedArticles[2].link

(* --------------------- the two versions of detectChanges --------------- *)
\* C30: for every article list and prior store the in-place detectChanges and
\* the copy-returning one return the same newArticles, updated and unchanged,
\* and the store as mutated by the former equals the updatedTracking returned
\* by the latter.
C30_InPlaceEqualsCopy ==
  (pc = "units" /\ call.fn = "detectChanges") =>
    /\ ret.inPlace.newArticles = ret.copy.newArticles
    /\ ret.inPlace.updated = ret.copy.updated
    /\ ret.inPlace.unchanged = ret.copy.unchanged
    /\ ret.inPlace.tracking = ret.copy.updatedTracking
====
